---- MODULE Spec2Model ----
(***************************************************************************)
(* Model of pkg/profile: the ProfileType text encoding and the Repository  *)
(* that sits between callers and the Storage backend.                      *)
(*                                                                         *)
(* Strings that are trimmed, formatted or concatenated (type names,        *)
(* service names, archive entry names) are sequences of one-character      *)
(* strings, so that these conversions are computed; identifiers that are   *)
(* only compared (build ids, tokens, label keys and values) are strings.   *)
(***************************************************************************)
EXTENDS Integers, Sequences, FiniteSets, TLC

VARIABLES
    s,          \* ProfileType.FromString: the argument string
    ptype,      \* the ProfileType value the receiver points to
    str,        \* result of ProfileType.String
    tpc,        \* position of the parse/format client
    services,   \* Service records held by the Storage backend, in insertion order
    last        \* the most recent Repository invocation and everything it did

vars == <<s, ptype, str, tpc, services, last>>

----------------------------------------------------------------------------
(* Bounds *)

MaxServices == 3    \* Service records the backend holds at most
MaxProfiles == 2    \* profiles the backend returns from one query at most

----------------------------------------------------------------------------
(* ProfileType *)

UnknownProfile == 0
CPUProfile == 1
HeapProfile == 2
BlockProfile == 3
MutexProfile == 4
GoroutineProfile == 5
OtherProfile == 127

cpu == <<"c", "p", "u">>
heap == <<"h", "e", "a", "p">>
block == <<"b", "l", "o", "c", "k">>
mutex == <<"m", "u", "t", "e", "x">>
goroutine == <<"g", "o", "r", "o", "u", "t", "i", "n", "e">>
other == <<"o", "t", "h", "e", "r">>
unknown == <<"u", "n", "k", "n", "o", "w", "n">>

\* the strings of FromString's switch
CanonicalTable == {cpu, heap, block, mutex, goroutine, other}

\* unicode.IsSpace on the characters the model uses
IsSpace(c) == c \in {" ", "\t", "\n", "\r"}

RECURSIVE TrimLeft(_)
TrimLeft(x) ==
    IF x # <<>> /\ IsSpace(Head(x)) THEN TrimLeft(Tail(x)) ELSE x

RECURSIVE TrimRight(_)
TrimRight(x) ==
    IF x # <<>> /\ IsSpace(x[Len(x)]) THEN TrimRight(SubSeq(x, 1, Len(x) - 1)) ELSE x

\* strings.TrimSpace
TrimSpace(x) == TrimRight(TrimLeft(x))

\* FromString without the trim: a parser that matches the raw argument
FromStringNoTrim(x) ==
    CASE x = cpu -> CPUProfile
      [] x = heap -> HeapProfile
      [] x = block -> BlockProfile
      [] x = mutex -> MutexProfile
      [] x = goroutine -> GoroutineProfile
      [] x = other -> OtherProfile
      [] OTHER -> UnknownProfile

\* (*ProfileType).FromString: the value stored through the receiver
FromString(x) ==
    LET t == TrimSpace(x) IN
    CASE t = cpu -> CPUProfile
      [] t = heap -> HeapProfile
      [] t = block -> BlockProfile
      [] t = mutex -> MutexProfile
      [] t = goroutine -> GoroutineProfile
      [] t = other -> OtherProfile
      [] OTHER -> UnknownProfile

DigitChar(d) == <<"0", "1", "2", "3", "4", "5", "6", "7", "8", "9">>[d + 1]

RECURSIVE Digits(_)
Digits(n) == IF n < 10 THEN <<DigitChar(n)>> ELSE Digits(n \div 10) \o <<DigitChar(n % 10)>>

\* fmt.Sprintf("%d", n)
Itoa(n) == IF n < 0 THEN <<"-">> \o Digits(0 - n) ELSE Digits(n)

RECURSIVE PadLeft(_, _)
PadLeft(x, width) == IF Len(x) >= width THEN x ELSE PadLeft(<<"0">> \o x, width)

\* fmt.Sprintf("%04d", n) for n >= 0
Itoa04(n) == PadLeft(Digits(n), 4)

\* ProfileType.String
String(t) ==
    CASE t = UnknownProfile -> unknown
      [] t = CPUProfile -> cpu
      [] t = HeapProfile -> heap
      [] t = BlockProfile -> block
      [] t = MutexProfile -> mutex
      [] t = GoroutineProfile -> goroutine
      [] t = OtherProfile -> other
      [] OTHER -> Itoa(t)

----------------------------------------------------------------------------
(* Inputs of the parse/format client *)

Pads == {<<>>, <<" ">>, <<"\t">>, <<"\n", " ">>}

Cores == CanonicalTable \cup
    { <<>>, unknown, <<"C", "P", "U">>, <<"c", "p">>, <<"c", " ", "p", "u">>,
      <<"1">>, <<"1", "2", "7">>, <<"h", "e", "a", "p", "s">> }

TypeInputs == { l \o c \o r : l \in Pads, c \in Cores, r \in Pads }

----------------------------------------------------------------------------
(* Identity primitives and records *)

svc == <<"s", "v", "c">>
api == <<"a", "p", "i">>

EnvProd == [key |-> "env", value |-> "prod"]
RegionUs == [key |-> "region", value |-> "us"]
TierWeb == [key |-> "tier", value |-> "web"]

\* Labels.Add: the union of two label sets
Add(labels, labels2) == labels \cup labels2

\* NewService: the record built from a name, a build identity and labels
NewService(name, id, labels) ==
    [Name |-> name, BuildID |-> id,
     Token |-> [name |-> name, build |-> id], Labels |-> labels]

\* Token.String: the opaque text form of a token
TokenString(token) == <<"token", token>>

\* TokenFromString: the token a client-side string stands for
TokenFromString(x) == [text |-> x]

\* a nil request pointer
NilRequest == [nil |-> TRUE]

\* a nil error
NoError == "nil"

----------------------------------------------------------------------------
(* Request validation *)

\* (*CreateServiceRequest).Validate: NoError or the error it returns
CreateServiceRequest_Validate(req) ==
    IF req = NilRequest THEN "nil request"
    ELSE IF req.ID = "" THEN "id empty"
    ELSE IF req.Service = <<>> THEN "service empty"
    ELSE NoError

\* (*CreateProfileRequest).Validate
CreateProfileRequest_Validate(req) ==
    IF req = NilRequest THEN "nil request"
    ELSE IF req.ID = "" THEN "id empty"
    ELSE IF req.Token = "" THEN "token empty"
    ELSE IF req.Type = UnknownProfile THEN "unknown profile type"
    ELSE NoError

\* time.Time.IsZero: instants are integers, 0 is the zero time
IsZero(t) == t = 0

\* time.Time.Before
Before(t, u) == t < u

\* (*GetProfilesRequest).Validate
GetProfilesRequest_Validate(req) ==
    IF req = NilRequest THEN "nil request"
    ELSE IF req.Service = <<>> THEN "no service"
    ELSE IF req.Type = UnknownProfile THEN "unknown profile type"
    ELSE IF IsZero(req.From) \/ IsZero(req.To) THEN "createdAt time zero"
    ELSE IF Before(req.To, req.From) THEN "createdAt time min after max"
    ELSE NoError

----------------------------------------------------------------------------
(* The Storage backend and the profile codec, as the Repository sees them *)

\* Storage.GetServices: the stored records the filter selects, in insertion
\* order; an empty service name selects every record
StorageGetServices(stored, filter) ==
    SelectSeq(stored, LAMBDA x : filter.Service = <<>> \/ x.Name = filter.Service)

\* decoded profiles the backend can hold
Payloads == {"p1", "p2"}

\* byte streams a client can submit: the encoding of a profile, or garbage
Readers == {[valid |-> TRUE, pp |-> p] : p \in Payloads} \cup {[valid |-> FALSE]}

\* profile.Parse: the decoded profile, or a decode error
Parse(r) == IF r.valid THEN [err |-> NoError, pp |-> r.pp]
            ELSE [err |-> "malformed profile", pp |-> "none"]

ProfileLists == UNION {[1..n -> Payloads] : n \in 0..MaxProfiles}

\* outcomes of Storage.GetProfiles: an error, or any list of decoded profiles
GetProfilesResults ==
    {[ok |-> FALSE, pps |-> <<>>]} \cup {[ok |-> TRUE, pps |-> l] : l \in ProfileLists}

\* outcomes of Storage.GetProfile: an error, or one decoded profile
GetProfileResults ==
    {[ok |-> FALSE, pp |-> "none"]} \cup {[ok |-> TRUE, pp |-> p] : p \in Payloads}

\* where the output stream fails during an export: nowhere, when entry `at`
\* is created, when entry `at` is written, or when the archive is closed
Failures(k) ==
    {[kind |-> "none", at |-> 0], [kind |-> "close", at |-> 0]} \cup
    {[kind |-> c, at |-> i] : c \in {"create", "write"}, i \in 1..k}

----------------------------------------------------------------------------
(* Repository *)

\* what one Repository invocation did: the request, what its surroundings did
\* (env: the reader it was given, or where its writer fails), the Storage
\* calls it made, the error and value it returned, and what it put on the
\* output stream
Invocation(op, req, env, calls, err, ret, out, closed) ==
    [op |-> op, req |-> req, env |-> env, calls |-> calls, err |-> err, ret |-> ret,
     out |-> out, closed |-> closed]

Idle == Invocation("none", NilRequest, "none", <<>>, NoError, "none", <<>>, FALSE)

Call(fn, arg, ok, ret) == [fn |-> fn, arg |-> arg, ok |-> ok, ret |-> ret]

\* Repository.CreateService: one Storage.CreateService call with the record
\* NewService builds; the request is used as it comes
Repository_CreateService(req, ok) ==
    LET service == NewService(req.Service, req.ID, req.Labels)
        call == Call("CreateService", service, ok, "none")
    IN  IF ~ok
        THEN Invocation("CreateService", req, "none", <<call>>, "storage", "", <<>>, FALSE)
        ELSE Invocation("CreateService", req, "none", <<call>>, NoError,
                        TokenString(service.Token), <<>>, FALSE)

EmptySet == [n \in {} |-> n]

\* the loop of mergeServices that overwrites the representative's labels
\* instead of adding to them
RECURSIVE servicesSetOverwrite(_, _)
servicesSetOverwrite(list, set) ==
    IF list = <<>> THEN set
    ELSE LET s1 == Head(list) IN
         IF s1.Name \notin DOMAIN set
         THEN servicesSetOverwrite(Tail(list), set @@ (s1.Name :> s1))
         ELSE servicesSetOverwrite(Tail(list),
                  [set EXCEPT ![s1.Name].Labels = s1.Labels])

\* the first loop of mergeServices: the map from name to representative
RECURSIVE servicesSet(_, _)
servicesSet(list, set) ==
    IF list = <<>> THEN set
    ELSE LET s1 == Head(list) IN
         IF s1.Name \notin DOMAIN set
         THEN servicesSet(Tail(list), set @@ (s1.Name :> s1))
         ELSE servicesSet(Tail(list),
                  [set EXCEPT ![s1.Name].Labels = Add(@, s1.Labels)])

\* every order in which ranging over a map can visit its keys
Orders(keys) ==
    {f \in [1..Cardinality(keys) -> keys] : \A i, j \in DOMAIN f : i # j => f[i] # f[j]}

\* mergeServices: the lists it can return, one per iteration order of the map
mergeServices(list) ==
    IF Len(list) = 0 THEN {list}
    ELSE LET set == servicesSet(list, EmptySet) IN
         {[i \in DOMAIN f |-> set[f[i]]] : f \in Orders(DOMAIN set)}

\* Repository.GetServices: the invocations it can be, given the backend's
\* records and whether the Storage call succeeds
Repository_GetServices(req, ok, stored) ==
    LET filter == [Service |-> req.Service] IN
    IF ~ok
    THEN {Invocation("GetServices", req, "none", <<Call("GetServices", filter, FALSE, <<>>)>>,
                     "storage", <<>>, <<>>, FALSE)}
    ELSE LET found == StorageGetServices(stored, filter) IN
         {Invocation("GetServices", req, "none", <<Call("GetServices", filter, TRUE, found)>>,
                     NoError, merged, <<>>, FALSE) : merged \in mergeServices(found)}

\* Repository.CreateProfile that hands the profile to Storage before decoding
CreateProfileStoreFirst(req, r, ok) ==
    LET prof == [Type |-> req.Type,
                 Service |-> [BuildID |-> req.ID, Token |-> TokenFromString(req.Token)]]
        parsed == Parse(r)
        call == Call("CreateProfile", [prof |-> prof, pp |-> parsed.pp], ok, "none")
    IN  Invocation("CreateProfile", req, r, <<call>>,
                   IF parsed.err # NoError THEN "parse"
                   ELSE IF ok THEN NoError ELSE "storage",
                   "none", <<>>, FALSE)

\* Repository.CreateProfile: decode, then one Storage.CreateProfile call
Repository_CreateProfile(req, r, ok) ==
    LET prof == [Type |-> req.Type,
                 Service |-> [BuildID |-> req.ID, Token |-> TokenFromString(req.Token)]]
        parsed == Parse(r)
    IN  IF parsed.err # NoError
        THEN Invocation("CreateProfile", req, r, <<>>, "parse", "none", <<>>, FALSE)
        ELSE Invocation("CreateProfile", req, r,
                        <<Call("CreateProfile", [prof |-> prof, pp |-> parsed.pp], ok, "none")>>,
                        IF ok THEN NoError ELSE "storage", "none", <<>>, FALSE)

\* a filter that also carries the request's limit
GetProfileFilterWithLimit(req) ==
    [Service |-> req.Service, Type |-> req.Type, Labels |-> req.Labels,
     CreatedAtMin |-> req.From, CreatedAtMax |-> req.To, Limit |-> req.Limit]

\* the GetProfileFilter that GetProfiles and GetProfile build from a request
GetProfileFilter(req) ==
    [Service |-> req.Service, Type |-> req.Type, Labels |-> req.Labels,
     CreatedAtMin |-> req.From, CreatedAtMax |-> req.To]

\* Repository.GetProfiles: whatever Storage.GetProfiles returns
Repository_GetProfiles(req, res) ==
    Invocation("GetProfiles", req, "none",
               <<Call("GetProfiles", GetProfileFilter(req), res.ok, res.pps)>>,
               IF res.ok THEN NoError ELSE "storage", res.pps, <<>>, FALSE)

\* Repository.GetProfile: whatever Storage.GetProfile returns
Repository_GetProfile(req, res) ==
    Invocation("GetProfile", req, "none",
               <<Call("GetProfile", GetProfileFilter(req), res.ok, res.pp)>>,
               IF res.ok THEN NoError ELSE "storage", res.pp, <<>>, FALSE)

dotProf == <<".", "p", "r", "o", "f">>

\* the entry name numbered from the loop index itself
EntryNameZeroBased(req, n) ==
    req.Service \o <<"-">> \o String(req.Type) \o <<"-">> \o Itoa04(n) \o dotProf

\* fmt.Sprintf("%s-%s-%04d.prof", req.Service, req.Type, n+1)
EntryName(req, n) ==
    req.Service \o <<"-">> \o String(req.Type) \o <<"-">> \o Itoa04(n + 1) \o dotProf

Entry(name, pp, complete) == [name |-> name, data |-> pp, complete |-> complete]

\* the archive loop that skips a failed entry and carries on to Close
RECURSIVE ZipLoopSkipFailed(_, _, _, _, _)
ZipLoopSkipFailed(req, pps, n, fail, out) ==
    IF n = Len(pps)
    THEN IF fail.kind = "close"
         THEN [out |-> out, err |-> "close", closed |-> FALSE]
         ELSE [out |-> out, err |-> NoError, closed |-> TRUE]
    ELSE LET name == EntryName(req, n) IN
         IF fail.at = n + 1
         THEN ZipLoopSkipFailed(req, pps, n + 1, fail, out)
         ELSE ZipLoopSkipFailed(req, pps, n + 1, fail,
                                Append(out, Entry(name, pps[n + 1], TRUE)))

\* the body of GetProfilesTo after the query: zw.Create and pp.Write for the
\* profile at loop index n and on, then zw.Close; fail says where the output
\* stream gives up
RECURSIVE ZipLoop(_, _, _, _, _)
ZipLoop(req, pps, n, fail, out) ==
    IF n = Len(pps)
    THEN IF fail.kind = "close"
         THEN [out |-> out, err |-> "close", closed |-> FALSE]
         ELSE [out |-> out, err |-> NoError, closed |-> TRUE]
    ELSE LET name == EntryName(req, n) IN
         IF fail.kind = "create" /\ fail.at = n + 1
         THEN [out |-> out, err |-> "create", closed |-> FALSE]
         ELSE IF fail.kind = "write" /\ fail.at = n + 1
         THEN [out |-> Append(out, Entry(name, pps[n + 1], FALSE)),
               err |-> "write", closed |-> FALSE]
         ELSE ZipLoop(req, pps, n + 1, fail, Append(out, Entry(name, pps[n + 1], TRUE)))

\* GetProfilesTo that archives whatever the query returned, error or not
GetProfilesToIgnoreError(req, res, fail) ==
    LET got == Repository_GetProfiles(req, res)
        zip == ZipLoop(req, got.ret, 0, fail, <<>>)
    IN  Invocation("GetProfilesTo", req, fail, got.calls, zip.err, "none", zip.out, zip.closed)

\* Repository.GetProfilesTo
Repository_GetProfilesTo(req, res, fail) ==
    LET got == Repository_GetProfiles(req, res) IN
    IF got.err # NoError
    THEN Invocation("GetProfilesTo", req, fail, got.calls, got.err, "none", <<>>, FALSE)
    ELSE LET zip == ZipLoop(req, got.ret, 0, fail, <<>>) IN
         Invocation("GetProfilesTo", req, fail, got.calls, zip.err, "none", zip.out, zip.closed)

\* Repository.GetProfileTo: the profile is written to the stream as it is
Repository_GetProfileTo(req, res, wok) ==
    LET got == Repository_GetProfile(req, res) IN
    IF got.err # NoError
    THEN Invocation("GetProfileTo", req, wok, got.calls, got.err, "none", <<>>, FALSE)
    ELSE Invocation("GetProfileTo", req, wok, got.calls,
                    IF wok THEN NoError ELSE "write", "none",
                    <<Entry(<<>>, got.ret, wok)>>, FALSE)

----------------------------------------------------------------------------
(* Requests the callers make *)

LabelSets == {{}, {EnvProd}}

ServiceRequests ==
    { [ID |-> "build-1", Service |-> svc, Labels |-> {EnvProd}],
      [ID |-> "build-2", Service |-> svc, Labels |-> {RegionUs}],
      [ID |-> "build-3", Service |-> svc, Labels |-> {TierWeb, EnvProd}],
      [ID |-> "build-1", Service |-> api, Labels |-> {TierWeb}],
      [ID |-> "build-2", Service |-> api, Labels |-> {}],
      [ID |-> "", Service |-> svc, Labels |-> {RegionUs}],
      [ID |-> "build-1", Service |-> <<>>, Labels |-> {EnvProd}] }

GetServicesRequests == {[Service |-> n] : n \in {<<>>, svc, api}}

CreateProfileRequests ==
    [ID : {"", "build-1"}, Token : {"", "tok"},
     Type : {UnknownProfile, CPUProfile, HeapProfile, OtherProfile, 6}]

GetProfilesRequests ==
    [Service : {<<>>, svc}, Type : {UnknownProfile, CPUProfile, HeapProfile, OtherProfile, 6},
     From : 0..2, To : 0..2, Labels : LabelSets, Limit : {0, 1}]

\* the few requests used where every operation runs against one backend
FewServiceRequests == {r \in ServiceRequests : r.ID \in {"build-1", ""}}
FewCreateProfileRequests == {r \in CreateProfileRequests : r.Type = CPUProfile}
FewGetProfilesRequests ==
    {r \in GetProfilesRequests :
        /\ r.Type \in {UnknownProfile, CPUProfile} /\ r.From = 1 /\ r.To \in {0, 2}
        /\ r.Labels = {} /\ r.Limit = 0}

----------------------------------------------------------------------------
(* Actions *)

TypeVars == <<s, ptype, str, tpc>>

\* a client parses a type name
DoFromString ==
    /\ tpc = "start"
    /\ ptype' = FromString(s)
    /\ tpc' = "parsed"
    /\ UNCHANGED <<s, str, services, last>>

\* and formats the value again
DoString ==
    /\ tpc = "parsed"
    /\ str' = String(ptype)
    /\ tpc' = "formatted"
    /\ UNCHANGED <<s, ptype, services, last>>

CreateService(req) ==
    /\ last = Idle
    /\ \E ok \in BOOLEAN :
        /\ ok => Len(services) < MaxServices
        /\ last' = Repository_CreateService(req, ok)
        /\ services' = IF ok THEN Append(services, last'.calls[1].arg) ELSE services
        /\ UNCHANGED TypeVars

GetServices(req) ==
    /\ last = Idle
    /\ \E ok \in BOOLEAN :
        /\ last' \in Repository_GetServices(req, ok, services)
        /\ UNCHANGED <<services, TypeVars>>

CreateProfile(req) ==
    /\ last = Idle
    /\ \E r \in Readers, ok \in BOOLEAN :
        /\ last' = Repository_CreateProfile(req, r, ok)
        /\ UNCHANGED <<services, TypeVars>>

GetProfiles(req) ==
    /\ last = Idle
    /\ \E res \in GetProfilesResults :
        /\ last' = Repository_GetProfiles(req, res)
        /\ UNCHANGED <<services, TypeVars>>

GetProfilesTo(req) ==
    /\ last = Idle
    /\ \E res \in GetProfilesResults :
        \E fail \in Failures(Len(res.pps)) :
            /\ last' = Repository_GetProfilesTo(req, res, fail)
            /\ UNCHANGED <<services, TypeVars>>

GetProfile(req) ==
    /\ last = Idle
    /\ \E res \in GetProfileResults :
        /\ last' = Repository_GetProfile(req, res)
        /\ UNCHANGED <<services, TypeVars>>

GetProfileTo(req) ==
    /\ last = Idle
    /\ \E res \in GetProfileResults, wok \in BOOLEAN :
        /\ last' = Repository_GetProfileTo(req, res, wok)
        /\ UNCHANGED <<services, TypeVars>>

\* the call returns to its caller; the Repository keeps nothing of it
Return ==
    /\ last # Idle
    /\ last' = Idle
    /\ UNCHANGED <<services, TypeVars>>

----------------------------------------------------------------------------
(* Specifications *)

TypeIdle == s = <<>> /\ ptype = UnknownProfile /\ str = <<>> /\ tpc = "off"

\* NewRepository over an empty backend
Init == TypeIdle /\ services = <<>> /\ last = Idle

\* every operation of the Repository against one backend
Next ==
    \/ \E req \in FewServiceRequests : CreateService(req)
    \/ \E req \in GetServicesRequests : GetServices(req)
    \/ \E req \in FewCreateProfileRequests : CreateProfile(req)
    \/ \E req \in FewGetProfilesRequests : GetProfiles(req)
    \/ \E req \in FewGetProfilesRequests : GetProfilesTo(req)
    \/ \E req \in FewGetProfilesRequests : GetProfile(req)
    \/ \E req \in FewGetProfilesRequests : GetProfileTo(req)
    \/ Return

Spec == Init /\ [][Next]_vars

\* service registration and lookup
NextServices ==
    \/ \E req \in ServiceRequests : CreateService(req)
    \/ \E req \in GetServicesRequests : GetServices(req)
    \/ Return

SpecServices == Init /\ [][NextServices]_vars

\* profile ingestion, query and export
NextProfiles ==
    \/ \E req \in CreateProfileRequests : CreateProfile(req)
    \/ \E req \in GetProfilesRequests : GetProfiles(req)
    \/ \E req \in GetProfilesRequests : GetProfilesTo(req)
    \/ \E req \in GetProfilesRequests : GetProfile(req)
    \/ \E req \in GetProfilesRequests : GetProfileTo(req)
    \/ Return

SpecProfiles == Init /\ [][NextProfiles]_vars

\* the text form of a profile type: parse, then format
InitType ==
    /\ s \in TypeInputs /\ ptype = UnknownProfile /\ str = <<>> /\ tpc = "start"
    /\ services = <<>> /\ last = Idle

NextType == DoFromString \/ DoString

SpecType == InitType /\ [][NextType]_vars

----------------------------------------------------------------------------
(* Properties *)

Range(f) == {f[i] : i \in DOMAIN f}

Registered(name, id, labels) == [Name |-> name, BuildID |-> id, Labels |-> labels]

\* the records of a list without their tokens
Registrations(list) ==
    [i \in DOMAIN list |-> Registered(list[i].Name, list[i].BuildID, list[i].Labels)]

\* C1: a successful GetServices returns exactly one record per distinct name
\* in the list Storage returned; if the records of a name have pairwise
\* disjoint labels, that one record carries the union of their labels; a
\* record whose name is unique in the list is returned as it was; and with the
\* two registrations ("svc", "build-1", {env:prod}) and ("svc", "build-2",
\* {region:us}) stored, GetServices("svc") returns one record named "svc"
\* with labels {env:prod, region:us}.
C1_GetServicesMerge ==
    (last.op = "GetServices" /\ last.err = NoError) =>
        LET found == last.calls[1].ret
            result == last.ret
            Group(n) == {i \in DOMAIN found : found[i].Name = n}
            Disjoint(g) == \A i, j \in g : i # j => found[i].Labels \cap found[j].Labels = {}
        IN  /\ {result[i].Name : i \in DOMAIN result} = {found[i].Name : i \in DOMAIN found}
            /\ \A i, j \in DOMAIN result : i # j => result[i].Name # result[j].Name
            /\ \A i \in DOMAIN result :
                LET g == Group(result[i].Name) IN
                /\ Disjoint(g) => result[i].Labels = UNION {found[j].Labels : j \in g}
                /\ Cardinality(g) = 1 => result[i] \in Range(found)
            /\ ( /\ Registrations(services) =
                        << Registered(svc, "build-1", {EnvProd}),
                           Registered(svc, "build-2", {RegionUs}) >>
                 /\ last.req.Service = svc )
               => /\ Len(result) = 1
                  /\ result[1].Name = svc
                  /\ result[1].Labels = {EnvProd, RegionUs}

\* C1 witness: both registrations of the scenario are stored and
\* GetServices("svc") has returned the single merged record
C1_Witness ==
    /\ last.op = "GetServices" /\ last.err = NoError /\ last.req.Service = svc
    /\ Registrations(services) =
           << Registered(svc, "build-1", {EnvProd}), Registered(svc, "build-2", {RegionUs}) >>
    /\ Len(last.calls[1].ret) = 2
    /\ Len(last.ret) = 1
    /\ last.ret[1].Labels = {EnvProd, RegionUs}

\* C2: a CreateProfile call whose request has an empty ID, an empty Token or
\* Type unknown returns an error that is not a decode error and makes no
\* Storage call.
C2_CreateProfileValidation ==
    (last.op = "CreateProfile" /\ CreateProfileRequest_Validate(last.req) # NoError) =>
        /\ last.err \notin {NoError, "parse"}
        /\ last.calls = <<>>

\* C3: a GetProfiles or GetProfile call whose request has an empty service
\* name, Type unknown, a zero From or To, or From after To returns an error
\* and makes no Storage call.
C3_GetProfilesValidation ==
    (last.op \in {"GetProfiles", "GetProfile"}
        /\ GetProfilesRequest_Validate(last.req) # NoError) =>
        /\ last.err # NoError
        /\ last.calls = <<>>

\* C4: a CreateService call whose request has an empty ID or an empty
\* Service name returns an error and makes no Storage call, and the backend
\* never holds a record with an empty name or build identity.
C4_CreateServiceValidation ==
    /\ (last.op = "CreateService" /\ CreateServiceRequest_Validate(last.req) # NoError) =>
            /\ last.err # NoError
            /\ last.calls = <<>>
    /\ \A i \in DOMAIN services : services[i].Name # <<>> /\ services[i].BuildID # ""

\* the strings that trim to c
Padded(c) == {l \o c \o r : l \in Pads, r \in Pads}

\* C5 as stated: formatting the parse of a canonical string gives the string
\* back, and every string outside the canonical table parses to unknown.
C5_RoundTripAsStated ==
    tpc = "formatted" =>
        /\ s \in CanonicalTable => str = s
        /\ s \notin CanonicalTable => ptype = UnknownProfile

\* C5: formatting the parse of a string that is a canonical string c inside
\* surrounding whitespace gives c (so a canonical string gives itself), and
\* every string that is not of that form parses to unknown.
C5_RoundTrip ==
    tpc = "formatted" =>
        /\ \A c \in CanonicalTable : s \in Padded(c) => str = c
        /\ (~ \E c \in CanonicalTable : s \in Padded(c)) => ptype = UnknownProfile

\* C5 witness: " cpu\t" was parsed and formatted back to "cpu"
C5_Witness ==
    /\ tpc = "formatted"
    /\ s = <<" ", "c", "p", "u", "\t">>
    /\ ptype = CPUProfile
    /\ str = cpu

\* the archive entry expected at position i (i < 10) for a request
ExpectedName(req, i) ==
    req.Service \o <<"-">> \o String(req.Type) \o <<"-", "0", "0", "0", DigitChar(i)>>
        \o <<".", "p", "r", "o", "f">>

\* C6: when GetProfilesTo returns without error, the output holds exactly one
\* complete entry per profile Storage returned, the i-th named
\* <service>-<type>-<i as 4 digits>.prof and holding the i-th profile, and the
\* archive is finalized.
C6_ArchiveLayout ==
    (last.op = "GetProfilesTo" /\ last.err = NoError) =>
        LET pps == last.calls[1].ret IN
        /\ Len(last.out) = Len(pps)
        /\ \A i \in DOMAIN pps :
            /\ last.out[i].name = ExpectedName(last.req, i)
            /\ last.out[i].data = pps[i]
            /\ last.out[i].complete
        /\ last.closed

\* C6 witness: two cpu profiles of "svc" were archived as svc-cpu-0001.prof
\* and svc-cpu-0002.prof
C6_Witness ==
    /\ last.op = "GetProfilesTo" /\ last.err = NoError /\ last.closed
    /\ last.calls[1].ret = <<"p1", "p2">>
    /\ [i \in DOMAIN last.out |-> last.out[i].name] =
         << <<"s", "v", "c", "-", "c", "p", "u", "-", "0", "0", "0", "1", ".", "p", "r", "o", "f">>,
            <<"s", "v", "c", "-", "c", "p", "u", "-", "0", "0", "0", "2", ".", "p", "r", "o", "f">> >>
    /\ [i \in DOMAIN last.out |-> last.out[i].data] = <<"p1", "p2">>

\* C7: a CreateProfile call whose byte stream does not decode returns the
\* decode error and makes no Storage call; a Storage.CreateProfile call is
\* made only with the profile decoded from the stream.
C7_DecodeFailure ==
    last.op = "CreateProfile" =>
        /\ ~last.env.valid => (last.err = "parse" /\ last.calls = <<>>)
        /\ last.calls # <<>> =>
            /\ last.env.valid
            /\ last.calls[1].fn = "CreateProfile"
            /\ last.calls[1].arg.pp = last.env.pp

\* C7 witness: a well-formed request with a garbage stream was refused
C7_Witness ==
    /\ last.op = "CreateProfile"
    /\ CreateProfileRequest_Validate(last.req) = NoError
    /\ ~last.env.valid
    /\ last.err = "parse"

\* C8: when creating or writing entry i fails, GetProfilesTo returns an
\* error, the archive is not finalized, the entries before i are in the
\* output complete and in order, and nothing complete is at or after i; an
\* archive is finalized only with every entry complete.
C8_AbortOnWriteFailure ==
    (last.op = "GetProfilesTo" /\ last.calls[1].ok) =>
        LET pps == last.calls[1].ret
            at == last.env.at
        IN  /\ last.env.kind \in {"create", "write"} =>
                /\ last.err # NoError
                /\ ~last.closed
                /\ Len(last.out) \in {at - 1, at}
                /\ \A j \in 1..(at - 1) :
                    last.out[j] = Entry(ExpectedName(last.req, j), pps[j], TRUE)
                /\ \A j \in DOMAIN last.out : j >= at => ~last.out[j].complete
            /\ last.closed =>
                /\ Len(last.out) = Len(pps)
                /\ \A j \in DOMAIN last.out : last.out[j].complete

\* C8 witness: the second of two entries could not be created; the first
\* stays in the output and the archive is left open
C8_Witness ==
    /\ last.op = "GetProfilesTo"
    /\ last.calls[1].ok /\ Len(last.calls[1].ret) = 2
    /\ last.env = [kind |-> "create", at |-> 2]
    /\ Len(last.out) = 1 /\ last.out[1].complete
    /\ last.err = "create" /\ ~last.closed

\* C9: an invocation makes at most one Storage call, and when that call
\* fails the invocation returns an error, has written nothing and has
\* finalized nothing.
C9_NoRetryNoSuppress ==
    /\ Len(last.calls) <= 1
    /\ (last.calls # <<>> /\ ~last.calls[1].ok) =>
        /\ last.err # NoError
        /\ last.out = <<>>
        /\ ~last.closed

\* C9 witness: the query of an export failed and the export returned the error
C9_Witness ==
    /\ last.op = "GetProfilesTo"
    /\ Len(last.calls) = 1 /\ ~last.calls[1].ok
    /\ last.err = "storage"
    /\ Len(services) > 0

Limits == {0, 1, 2}

\* C10: the filter handed to Storage is the one any request with the same
\* Service, Type, Labels, From and To gets, whatever its Limit; GetProfiles
\* returns the whole list Storage returned and a successful GetProfilesTo
\* archives all of it.
C10_LimitIgnored ==
    (last.op \in {"GetProfiles", "GetProfile", "GetProfilesTo", "GetProfileTo"}) =>
        /\ \A l \in Limits :
            last.calls[1].arg = GetProfileFilter([last.req EXCEPT !.Limit = l])
        /\ last.op = "GetProfiles" => last.ret = last.calls[1].ret
        /\ (last.op = "GetProfilesTo" /\ last.err = NoError) =>
            [i \in DOMAIN last.out |-> last.out[i].data] = last.calls[1].ret

\* C10 witness: a request with Limit 1 was answered with two profiles and
\* both were archived
C10_Witness ==
    /\ last.op = "GetProfilesTo" /\ last.err = NoError
    /\ last.req.Limit = 1
    /\ Len(last.calls[1].ret) = 2
    /\ Len(last.out) = 2

====
